---- MODULE Spec2Model ----
(***************************************************************************)
(* A model of the inx-notarizer plugin (components/notarizer/notarizer.go): *)
(* the create handler (fetch, filter, assemble, submit) and the verify      *)
(* handler, over a ledger node and an indexer that are the environment.     *)
(*                                                                          *)
(* Scaling.  Go's uint64 is modelled as the integers modulo UintModulus,    *)
(* strings and byte slices as sequences of byte values, output identifiers  *)
(* as OutputIDLength bytes written as "0x" + 2*OutputIDLength hex digits.   *)
(* Time is counted in seconds from the creation of the fetch contexts.      *)
(*                                                                          *)
(* Specifications.  Spec is the service; SpecFilter, SpecTx, SpecRent and    *)
(* SpecEnv run filterOutputs, prepTxPayload, the rent computation and       *)
(* loadEnvVariable alone, on all their small inputs.                        *)
(***************************************************************************)
EXTENDS Integers, Sequences, FiniteSets, TLC

\* ------------------------------------------------------------------ bounds
\* uint64 arithmetic wraps modulo UintModulus (2^64 in the program)
UintModulus == 64
\* longest hash / metadata payload, in bytes
MaxHashLen == 2
\* longest sequence of unspent outputs handed to filterOutputs in SpecFilter
MaxUnspent == 3
\* largest number of eligible inputs handed to prepTxPayload in SpecTx
MaxInputs == 2
\* pages the indexer stream serves at most
MaxPages == 2
\* create requests the service handles in one behaviour of Spec
MaxCreates == 1
\* verify requests the service handles in one behaviour
MaxVerifies == 2
\* the longest value of an environment variable, in characters
MaxEnvLen == 3

\* --------------------------------------------------------------- helpers
SeqsUpTo(S, n) == UNION {[1..k -> S] : k \in 0..n}

RECURSIVE SumSeq(_)
SumSeq(s) == IF s = <<>> THEN 0 ELSE Head(s) + SumSeq(Tail(s))

\* the byte values of the model's alphabet
Bytes == {1, 2}
\* Go strings: sequences of bytes
Strings == SeqsUpTo(Bytes, MaxHashLen)

\* []byte(s): a fresh slice holding the bytes of the string, in order
StringToBytes(s) == [i \in 1..Len(s) |-> s[i]]
\* string(b): a string holding the bytes of the slice, in order
BytesToString(b) == [i \in 1..Len(b) |-> b[i]]

\* ------------------------------------------------------------ ledger data
\* iotago features; a metadata feature carries opaque bytes
SenderFeature == [type |-> "sender", data |-> <<>>]
TagFeature == [type |-> "tag", data |-> <<>>]
MetadataFeature(data) == [type |-> "metadata", data |-> data]

\* iotago.BasicOutput / iotago.AliasOutput / iotago.NFTOutput values
MkOutput(kind, amount, conds, features) ==
    [kind |-> kind, amount |-> amount, conds |-> conds, features |-> features]

\* Output.Deposit(): the amount the output holds
Deposit(o) == o.amount

\* FeatureSet().MetadataFeature() == nil: the output's features hold no
\* metadata feature (the feature set is keyed by feature type)
HasMetadataFeature(o) == \E i \in 1..Len(o.features) : o.features[i].type = "metadata"

IsBasicOutput(o) == o.kind = "basic"

\* UTXOOutput{OutputID, Output} and BasicOutput{OutputID, Output}
UTXOOutput(id, o) == [OutputID |-> id, Output |-> o]

\* --------------------------------------------------------- filterOutputs
\* the eligibility test of filterOutputs: a *iotago.BasicOutput whose feature
\* set has no metadata feature
SuitableNoTypeCheck(u) == ~HasMetadataFeature(u.Output)

SuitableNoMetadataCheck(u) == IsBasicOutput(u.Output)

Suitable(u) == IsBasicOutput(u.Output) /\ ~HasMetadataFeature(u.Output)

RECURSIVE filterOutputs(_)
filterOutputs(unspent) ==
    IF unspent = <<>> THEN <<>>
    ELSE IF Suitable(Head(unspent))
         THEN <<UTXOOutput(Head(unspent).OutputID, Head(unspent).Output)>>
                  \o filterOutputs(Tail(unspent))
         ELSE filterOutputs(Tail(unspent))

\* ------------------------------------------------- output identifiers (hex)
\* characters are one-letter strings; a hex string is a sequence of them
HexDigits == <<"0", "1", "2", "3", "4", "5", "6", "7", "8", "9",
               "a", "b", "c", "d", "e", "f">>

IsHexDigit(c) == \E i \in 1..Len(HexDigits) : HexDigits[i] = c

HexVal(c) == (CHOOSE i \in 1..Len(HexDigits) : HexDigits[i] = c) - 1

\* iotago.OutputIDFromHex: "0x" followed by the hex digits of the identifier's
\* bytes (one byte in the model); anything else is an error
OutputIDFromHex(s) ==
    IF /\ Len(s) = 4
       /\ s[1] = "0" /\ s[2] = "x"
       /\ IsHexDigit(s[3]) /\ IsHexDigit(s[4])
    THEN [ok |-> TRUE, id |-> 16 * HexVal(s[3]) + HexVal(s[4])]
    ELSE [ok |-> FALSE, id |-> 0]

\* OutputID.ToHex / BlockID.ToHex
ToHex(id) == <<"0", "x", HexDigits[(id \div 16) + 1], HexDigits[(id % 16) + 1]>>

\* ------------------------------------------------------- storage deposit
\* RentStructure.MinRent(output) = VByteCost * output.VBytes(rent), in uint64.
\* The virtual size of a basic output: its key bytes (the output identifier)
\* weighted by VBFactorKey, and its data bytes (fixed fields, one unit per
\* unlock condition, one unit plus the payload per feature) by VBFactorData.
VBytes(rent, o) ==
    rent.VBFactorKey
    + rent.VBFactorData
        * (1 + Len(o.conds)
           + SumSeq([i \in 1..Len(o.features) |-> 1 + Len(o.features[i].data)]))

\* the product in an integer type of half the width
MinRentNarrow(rent, o) == (rent.VByteCost * VBytes(rent, o)) % (UintModulus \div 2)

MinRent(rent, o) == (rent.VByteCost * VBytes(rent, o)) % UintModulus

\* the protocol parameters the node reports: a supply well below the word
\* size (as on the public networks) and one at the top of the uint64 range
ProtoParasSet ==
    {[TokenSupply |-> ts, RentStructure |-> [VByteCost |-> 1, VBFactorData |-> 1, VBFactorKey |-> 1]] :
        ts \in {UintModulus \div 2, UintModulus - 1}}

\* ------------------------------------------------------- prepTxPayload
\* the notarization output: a basic output to the sender's address whose
\* only feature is a metadata feature holding []byte(hash)
NotarizationDraftNoHash(hash) ==
    MkOutput("basic", 0, <<"address">>, <<MetadataFeature(<<>>)>>)

NotarizationDraft(hash) ==
    MkOutput("basic", 0, <<"address">>, <<MetadataFeature(StringToBytes(hash))>>)

\* var totalDeposit uint64; totalDeposit += unspentOutput.Output.Deposit()
RECURSIVE TotalDeposit(_)
TotalDeposit(inputs) ==
    IF inputs = <<>> THEN 0
    ELSE (Deposit(Head(inputs).Output) + TotalDeposit(Tail(inputs))) % UintModulus

\* remainder := totalDeposit - notarizationOutputCost, in uint64
Remainder(total, cost) == (total + UintModulus - cost) % UintModulus

\* the inputs and outputs prepTxPayload hands to the transaction builder
TxBuilderState(paras, inputs, hash) ==
    LET cost == MinRent(paras.RentStructure, NotarizationDraft(hash))
        notarizationOutput == [NotarizationDraft(hash) EXCEPT !.amount = cost]
        remainder == Remainder(TotalDeposit(inputs), cost)
    IN [inputs |-> inputs,
        outputs |-> <<notarizationOutput>> \o
                    (IF remainder > 0
                     THEN <<MkOutput("basic", remainder, <<"address">>, <<>>)>>
                     ELSE <<>>)]

\* txBuilder.Build validates the transaction syntactically before it returns
\* it: at least one input, no input identifier twice, every output's deposit
\* positive, at most the token supply, at least its own minimum rent, and the
\* running uint64 sum of the outputs at most the token supply
RECURSIVE OutputsDepositValid(_, _, _)
OutputsDepositValid(paras, outputs, sum) ==
    IF outputs = <<>> THEN TRUE
    ELSE LET deposit == Deposit(Head(outputs)) IN
         /\ deposit > 0
         /\ deposit <= paras.TokenSupply
         /\ (sum + deposit) % UintModulus <= paras.TokenSupply
         /\ deposit >= MinRent(paras.RentStructure, Head(outputs))
         /\ OutputsDepositValid(paras, Tail(outputs), (sum + deposit) % UintModulus)

BuildValid(paras, b) ==
    /\ Len(b.inputs) >= 1
    /\ \A i, j \in 1..Len(b.inputs) :
           b.inputs[i].OutputID = b.inputs[j].OutputID => i = j
    /\ OutputsDepositValid(paras, b.outputs, 0)

\* ------------------------------------------------------------ environment
\* the node's ledger when the service starts: the wallet's outputs
\*   00, 01  plain basic outputs            02  an earlier notarization
\*   03      an alias output with metadata  04  a basic output with a sender
\*                                              and two metadata features
LedgerInit ==
    {UTXOOutput(0, MkOutput("basic", 3, <<"address">>, <<>>)),
     UTXOOutput(1, MkOutput("basic", 7, <<"address">>, <<>>)),
     UTXOOutput(2, MkOutput("basic", 5, <<"address">>, <<MetadataFeature(<<1>>)>>)),
     UTXOOutput(3, MkOutput("alias", 6, <<"stateController", "governor">>,
                            <<MetadataFeature(<<1>>)>>)),
     UTXOOutput(4, MkOutput("basic", 8, <<"address">>,
                            <<SenderFeature, MetadataFeature(<<2>>), MetadataFeature(<<1>>)>>))}

\* a hex string that is no output identifier (a digit that is not hexadecimal)
BadHex == <<"0", "x", "g", "0">>

\* the pages the indexer may serve: each a list of hex output identifiers
\* (09 is on no ledger: its resolution fails)
Pages ==
    {<<>>, <<ToHex(0)>>, <<ToHex(1)>>, <<ToHex(0), ToHex(1)>>, <<ToHex(2), ToHex(3)>>,
     <<ToHex(1), ToHex(9)>>, <<ToHex(0), BadHex>>}

\* block identifiers the node hands out
BlockIDs == {18, 171}

\* the verify request bodies: one the JSON decoder rejects (no JSON at all, or
\* a hash field of the wrong type beside a well-formed outputID), or the
\* decoded hash and outputID
HexInputs ==
    {ToHex(i) : i \in {0, 2, 3, 4, 9, 16, 17}}
        \cup {BadHex, <<"0", "0">>, <<"0", "x", "0">>}

Bodies ==
    {[json |-> FALSE, Hash |-> <<>>, OutputID |-> x] : x \in {BadHex, ToHex(0)}}
        \cup {[json |-> TRUE, Hash |-> h, OutputID |-> x] : h \in Strings, x \in HexInputs}

\* ---------------------------------------------------------------- contexts
\* the two timeouts of fetchOutputsByAddress, in seconds
inxRequestTimeout == 5
indexerPluginAvailableTimeout == 30

\* how long the indexer may take to become available, and how long one call
\* of the indexer may take
IndexerWaits == {0, 2 * inxRequestTimeout, indexerPluginAvailableTimeout}
CallTimes == {0, inxRequestTimeout}

\* a call issued at now that would take d, under a context whose deadline
\* is at deadline: the context is done before the call returns
Expires(now, d, deadline) == now + d >= deadline
\* when the call is aborted: at the deadline, or at once when it has passed
AbortTime(now, deadline) == IF now > deadline THEN now ELSE deadline

\* the deadlines of ctxIndexer and ctxRequest, both counted from the start
\* of fetchOutputsByAddress, where the two contexts are created
IndexerDeadline == indexerPluginAvailableTimeout
RequestDeadline == inxRequestTimeout

\* ------------------------------------------------------------------ state
VARIABLES
    pc,              \* where the running handler stands
    handler,         \* "none", "create" or "verify"
    protoParas,      \* deps.NodeBridge.ProtocolParameters()
    ledger,          \* the node's unspent outputs
    notarized,       \* the notarization outputs on the ledger, with their hash
    hash,            \* createNotarization: c.Param("hash")
    served,          \* the pages the indexer stream has served
    unspentOutputs,  \* fetchOutputsByAddress: the outputs collected so far
    fetched,         \* what fetchOutputsByAddress returned
    suitableOutputs, \* what filterOutputs returned
    txPayload,       \* the transaction builder's content and Build's verdict
    body,            \* verifyNotarization: the request body
    output,          \* verifyNotarization: what OutputByID returned
    err,             \* the error the handler logged
    resp,            \* the HTTP response
    calls,           \* the external calls of the running request, in order
    stages,          \* the steps the running handler has taken, with their outcome
    blockId,         \* prepAndSendBlock: what SubmitBlock returned
    cancelled,       \* c.Request().Context() is cancelled: the client has gone
    cause,           \* the error of the external call that err wraps
    elapsed,         \* fetchOutputsByAddress: seconds since its contexts were made
    acquired,        \* fetchOutputsByAddress: elapsed when Indexer returned
    environ,         \* the environment of the process
    mnemonic,        \* what loadEnvVariable returned
    nCreates,
    nVerifies

vars == <<pc, handler, protoParas, ledger, notarized, hash, served, unspentOutputs,
          fetched, suitableOutputs, txPayload, body, output, err, resp, calls,
          stages, blockId, cancelled, cause, elapsed, acquired, environ, mnemonic,
          nCreates, nVerifies>>

envVars == <<protoParas, ledger, notarized, environ>>
fetchVars == <<served, unspentOutputs, fetched>>
verifyVars == <<body, output>>
countVars == <<nCreates, nVerifies>>
ctxVars == <<cancelled, cause, elapsed, acquired>>

NoFetch == [done |-> FALSE, err |-> "", outputs |-> <<>>]
NoTx == [built |-> FALSE, inputs |-> <<>>, outputs |-> <<>>]
NoBody == [json |-> FALSE, Hash |-> <<>>, OutputID |-> <<>>]
NoOutput == [found |-> FALSE, o |-> MkOutput("none", 0, <<>>, <<>>)]
NoResp == [status |-> 0, msg |-> "", match |-> "none", blockId |-> <<>>]

\* an error answer with the status of a client error
HTTPErrorBadRequest(msg) == [status |-> 400, msg |-> msg, match |-> "none", blockId |-> <<>>]

\* echo.NewHTTPError(http.StatusInternalServerError, msg)
HTTPError(msg) == [status |-> 500, msg |-> msg, match |-> "none", blockId |-> <<>>]
\* c.JSON(http.StatusOK, map[string]bool{"match": m})
MatchJSON(m) == [status |-> 200, msg |-> "", match |-> IF m THEN "true" ELSE "false",
                 blockId |-> <<>>]
\* c.JSON(http.StatusOK, map[string]string{"blockId": hexBlockId})
BlockJSON(hexBlockId) == [status |-> 200, msg |-> "", match |-> "none", blockId |-> hexBlockId]

\* the variables a process environment may hold, and what one of them may
\* be: not set, or set to a string of up to MaxEnvLen characters
EnvNames == {"MNEMONIC", "TEST_MNEMONIC"}
EnvChars == {" ", "a", "b"}
EnvUnset == [set |-> FALSE, value |-> <<>>]
EnvEntries == {EnvUnset} \cup {[set |-> TRUE, value |-> v] : v \in SeqsUpTo(EnvChars, MaxEnvLen)}

\* the MNEMONIC variable of the process environment: unset, empty, or set
EnvValues == {EnvUnset, [set |-> TRUE, value |-> <<>>],
              [set |-> TRUE, value |-> <<"a", " ", "b">>]}

\* loadEnvVariable fails when the variable is absent or empty
LoadEnvFails(env) == ~env.set \/ Len(env.value) = 0

\* a split that drops the empty words, as strings.Fields does
RECURSIVE SplitFields(_)
SplitFields(keys) ==
    IF keys = <<>> THEN <<>>
    ELSE IF Head(keys) = " " THEN SplitFields(Tail(keys))
    ELSE IF \A i \in 1..Len(keys) : keys[i] # " " THEN <<keys>>
    ELSE LET i == CHOOSE k \in 1..Len(keys) :
                      keys[k] = " " /\ \A j \in 1..(k - 1) : keys[j] # " "
         IN <<SubSeq(keys, 1, i - 1)>> \o SplitFields(SubSeq(keys, i + 1, Len(keys)))

\* strings.Split(keys, " "): the pieces of keys between its spaces, empty
\* pieces included, one more than there are spaces
RECURSIVE Split(_)
Split(keys) ==
    IF \A i \in 1..Len(keys) : keys[i] # " " THEN <<keys>>
    ELSE LET i == CHOOSE k \in 1..Len(keys) :
                      keys[k] = " " /\ \A j \in 1..(k - 1) : keys[j] # " "
         IN <<SubSeq(keys, 1, i - 1)>> \o Split(SubSeq(keys, i + 1, Len(keys)))

\* fmt.Errorf("environment variable '%s' not set", name)
NotSetError(name) == <<"environment variable '", name, "' not set">>

NoMnemonic == [name |-> "", phrases |-> <<>>, err |-> <<>>]

\* loadEnvVariable(name): (nil, error) or (phrases, nil)
loadEnvVariable(environment, name) ==
    IF LoadEnvFails(environment[name])
    THEN [name |-> name, phrases |-> <<>>, err |-> NotSetError(name)]
    ELSE [name |-> name, phrases |-> Split(environment[name].value), err |-> <<>>]

\* an environment in which MNEMONIC is set to two words
EnvironSet ==
    [n \in EnvNames |-> IF n = "MNEMONIC" THEN [set |-> TRUE, value |-> <<"a", " ", "b">>]
                         ELSE EnvUnset]

\* one step of a handler and whether it returned without error
Stage(name, ok) == [stage |-> name, ok |-> ok]

\* createNotarization up to the call of fetchOutputsByAddress, of
\* filterOutputs and of prepTxPayload, when nothing has failed
StagesBeforeFetch == <<Stage("mnemonic", TRUE), Stage("wallet", TRUE)>>
StagesBeforeFilter == StagesBeforeFetch \o <<Stage("fetch", TRUE)>>
StagesBeforeTx == StagesBeforeFilter \o <<Stage("filter", TRUE)>>

Init ==
    /\ pc = "idle"
    /\ handler = "none"
    /\ protoParas \in ProtoParasSet
    /\ ledger = LedgerInit
    /\ notarized = {}
    /\ hash = <<>>
    /\ served = <<>>
    /\ unspentOutputs = <<>>
    /\ fetched = NoFetch
    /\ suitableOutputs = <<>>
    /\ txPayload = NoTx
    /\ body = NoBody
    /\ output = NoOutput
    /\ err = ""
    /\ resp = NoResp
    /\ calls = <<>>
    /\ stages = <<>>
    /\ blockId = 0
    /\ cancelled = FALSE
    /\ cause = ""
    /\ elapsed = 0
    /\ acquired = 0
    /\ \E env \in EnvValues :
           environ = [n \in EnvNames |-> IF n = "MNEMONIC" THEN env ELSE EnvUnset]
    /\ mnemonic = NoMnemonic
    /\ nCreates = 0
    /\ nVerifies = 0

\* no handler is running: the next request may start
Free == pc = "idle"

\* --------------------------------------------------- createNotarization
\* the handler up to the fetch: the hash parameter, the protocol parameters,
\* the mnemonic from the environment, the wallet derived from it
StartCreate ==
    /\ Free
    /\ nCreates < MaxCreates
    /\ mnemonic' = loadEnvVariable(environ, "MNEMONIC")
    /\ \E h \in Strings, walletOk \in BOOLEAN :
        /\ hash' = h
        /\ IF mnemonic'.err # <<>>
           THEN /\ err' = "environment variable not set"
                /\ resp' = HTTPError("Error loading mnemonic")
                /\ stages' = <<Stage("mnemonic", FALSE)>>
                /\ pc' = "done"
           ELSE IF ~walletOk
           THEN /\ err' = "creating wallet failed"
                /\ resp' = HTTPError("Error preparing wallet")
                /\ stages' = <<Stage("mnemonic", TRUE), Stage("wallet", FALSE)>>
                /\ pc' = "done"
           ELSE /\ err' = ""
                /\ resp' = NoResp
                /\ stages' = StagesBeforeFetch
                /\ pc' = "indexer"
    /\ handler' = "create"
    /\ nCreates' = nCreates + 1
    /\ UNCHANGED <<envVars, fetchVars, suitableOutputs, txPayload, verifyVars, calls,
                   blockId, ctxVars, nVerifies>>

\* a handler that logs the fetch error and goes on to the filter
FetchFailsContinues(e) ==
    /\ fetched' = [done |-> TRUE, err |-> e, outputs |-> <<>>]
    /\ err' = e
    /\ resp' = resp
    /\ stages' = Append(stages, Stage("fetch", FALSE))
    /\ pc' = "filter"

\* fetchOutputsByAddress returns (nil, error): createNotarization answers 500
FetchFails(e) ==
    /\ fetched' = [done |-> TRUE, err |-> e, outputs |-> <<>>]
    /\ err' = e
    /\ resp' = HTTPError("Error fetching outputs")
    /\ stages' = Append(stages, Stage("fetch", FALSE))
    /\ pc' = "done"

\* deps.NodeBridge.Indexer(ctxIndexer)
FetchIndexer ==
    /\ pc = "indexer"
    /\ calls' = Append(calls, "Indexer")
    /\ \E wait \in IndexerWaits, ok \in BOOLEAN :
        IF Expires(elapsed, wait, IndexerDeadline)
        THEN /\ FetchFails("failed to get indexer client")
             /\ cause' = "context deadline exceeded"
             /\ elapsed' = AbortTime(elapsed, IndexerDeadline)
             /\ UNCHANGED acquired
        ELSE /\ elapsed' = elapsed + wait
             /\ IF ok
                THEN /\ pc' = "query"
                     /\ acquired' = elapsed + wait
                     /\ UNCHANGED <<fetched, err, resp, stages, cause>>
                ELSE /\ FetchFails("failed to get indexer client")
                     /\ cause' = "rpc error"
                     /\ UNCHANGED acquired
    /\ UNCHANGED mnemonic
    /\ UNCHANGED <<handler, envVars, hash, served, unspentOutputs, suitableOutputs,
                   txPayload, verifyVars, blockId, cancelled, countVars>>

\* indexer.Outputs(ctxRequest, basicOutputsQuery)
FetchQuery ==
    /\ pc = "query"
    /\ calls' = Append(calls, "Outputs")
    /\ \E d \in CallTimes, ok \in BOOLEAN :
        IF Expires(elapsed, d, RequestDeadline)
        THEN /\ FetchFails("failed to fetch outputs from indexer")
             /\ cause' = "context deadline exceeded"
             /\ elapsed' = AbortTime(elapsed, RequestDeadline)
        ELSE /\ elapsed' = elapsed + d
             /\ IF ok
                THEN pc' = "next" /\ UNCHANGED <<fetched, err, resp, stages, cause>>
                ELSE /\ FetchFails("failed to fetch outputs from indexer")
                     /\ cause' = "rpc error"
    /\ UNCHANGED mnemonic
    /\ UNCHANGED <<handler, envVars, hash, served, unspentOutputs, suitableOutputs,
                   txPayload, verifyVars, blockId, cancelled, acquired, countVars>>

LedgerIDs(l) == {u.OutputID : u \in l}
OutputByID(l, id) == (CHOOSE u \in l : u.OutputID = id).Output

\* every item of the page is the hex form of an output identifier
PageWellFormed(page) == \A i \in 1..Len(page) : OutputIDFromHex(page[i]).ok
\* indexerResultSet.Outputs() resolves every item of the page on the node
PageResolves(l, page) ==
    \A i \in 1..Len(page) : OutputIDFromHex(page[i]).id \in LedgerIDs(l)

\* the inner loop: each output of the page with the identifier parsed from
\* indexerResultSet.Response.Items[i]
PageOutputs(l, page) ==
    [i \in 1..Len(page) |->
        UTXOOutput(OutputIDFromHex(page[i]).id, OutputByID(l, OutputIDFromHex(page[i]).id))]

\* one turn of "for indexerResultSet.Next()", or the end of the loop
FetchNext ==
    /\ pc = "next"
    /\ \/ \* Next() reports the end of the stream; indexerResultSet.Error is nil;
          \* the deferred cancel functions release both contexts
          /\ fetched' = [done |-> TRUE, err |-> "", outputs |-> unspentOutputs]
          /\ stages' = Append(stages, Stage("fetch", TRUE))
          /\ pc' = "filter"
          /\ elapsed' = 0
          /\ acquired' = 0
          /\ UNCHANGED <<served, unspentOutputs, err, resp, calls, cause>>
       \/ \* Next() fails to retrieve a page and sets indexerResultSet.Error
          /\ FetchFails("indexer result set error")
          /\ calls' = Append(calls, "Next")
          /\ \E d \in CallTimes :
                IF Expires(elapsed, d, RequestDeadline)
                THEN /\ cause' = "context deadline exceeded"
                     /\ elapsed' = AbortTime(elapsed, RequestDeadline)
                ELSE /\ cause' = "rpc error"
                     /\ elapsed' = elapsed + d
          /\ UNCHANGED <<served, unspentOutputs, acquired>>
       \/ \* Next() retrieves a page
          /\ Len(served) < MaxPages
          /\ \E page \in Pages, nodeErr \in BOOLEAN, d \in CallTimes :
              /\ ~Expires(elapsed, d, RequestDeadline)
              /\ elapsed' = elapsed + d
              /\ served' = Append(served, page)
              /\ calls' = Append(calls, "Next")
              /\ IF nodeErr \/ (PageWellFormed(page) /\ ~PageResolves(ledger, page))
                 THEN \* Outputs() returns an error
                      /\ FetchFails("failed to get outputs from indexer result set")
                      /\ cause' = "rpc error"
                      /\ UNCHANGED unspentOutputs
                 ELSE IF ~PageWellFormed(page)
                 THEN \* the parse error is logged, and ingoingOutputIds[0]
                      \* indexes an empty slice: the handler panics
                      /\ err' = "Error parsing hex output IDs"
                      /\ stages' = Append(stages, Stage("fetch", FALSE))
                      /\ pc' = "panic"
                      /\ UNCHANGED <<unspentOutputs, fetched, resp, cause>>
                 ELSE /\ unspentOutputs' = unspentOutputs \o PageOutputs(ledger, page)
                      /\ pc' = "next"
                      /\ UNCHANGED <<fetched, err, resp, stages, cause>>
          /\ UNCHANGED acquired
    /\ UNCHANGED mnemonic
    /\ UNCHANGED <<handler, envVars, hash, suitableOutputs, txPayload, verifyVars, blockId,
                   cancelled, countVars>>

\* unspentOutputs, err := filterOutputs(indexerResultSet): err is always nil
FilterOutputs ==
    /\ pc = "filter"
    /\ suitableOutputs' = filterOutputs(fetched.outputs)
    /\ stages' = Append(stages, Stage("filter", TRUE))
    /\ pc' = "prepTx"
    /\ UNCHANGED mnemonic
    /\ UNCHANGED <<handler, envVars, hash, fetchVars, txPayload, verifyVars, err, resp,
                   calls, blockId, ctxVars, countVars>>

\* prepTxPayload: fill the builder, then txBuilder.Build(protoParas, signer),
\* which fails when the transaction is not valid or cannot be signed
PrepTxPayload ==
    /\ pc = "prepTx"
    /\ \E signed \in BOOLEAN :
        LET b == TxBuilderState(protoParas, suitableOutputs, hash)
            built == signed /\ BuildValid(protoParas, b)
        IN /\ txPayload' = [built |-> built, inputs |-> b.inputs, outputs |-> b.outputs]
           /\ stages' = Append(stages, Stage("assemble", built))
           /\ IF built
              THEN pc' = "tips" /\ UNCHANGED <<err, resp>>
              ELSE /\ err' = "failed to build transaction payload"
                   /\ resp' = HTTPError("Error preparing transaction payload")
                   /\ pc' = "done"
    /\ UNCHANGED mnemonic
    /\ UNCHANGED <<handler, envVars, hash, fetchVars, suitableOutputs, verifyVars, calls,
                   blockId, ctxVars, countVars>>

\* a prepAndSendBlock that returns one and the same error from every step
SendFailsSameError(e) ==
    /\ err' = "failed to prepare and send block"
    /\ resp' = HTTPError("Error preparing and sending block")
    /\ pc' = "done"

\* prepAndSendBlock returns ("", error): createNotarization answers 500
SendFails(e) ==
    /\ err' = e
    /\ resp' = HTTPError("Error preparing and sending block")
    /\ pc' = "done"

\* prepAndSendBlock, first half: the transaction ID, then inxNodeClient.Tips
\* and the parsing of the tips
SendTips ==
    /\ pc = "tips"
    /\ \E outcome \in {"id", "tips", "parse", "ok"} :
        /\ cancelled => outcome \in {"id", "tips"}
        /\ cause' = IF outcome # "tips" THEN cause
                     ELSE IF cancelled THEN "context canceled" ELSE "rpc error"
        /\ calls' = IF outcome = "id" THEN calls ELSE Append(calls, "Tips")
        /\ stages' = stages \o
               CASE outcome = "id" -> <<Stage("txID", FALSE)>>
                 [] outcome = "tips" -> <<Stage("txID", TRUE), Stage("tips", FALSE)>>
                 [] outcome = "parse" -> <<Stage("txID", TRUE), Stage("tips", TRUE),
                                          Stage("parseTips", FALSE)>>
                 [] outcome = "ok" -> <<Stage("txID", TRUE), Stage("tips", TRUE),
                                       Stage("parseTips", TRUE)>>
        /\ CASE outcome = "id" -> SendFails("failed to get transaction ID")
             [] outcome = "tips" -> SendFails("failed to fetch tips")
             [] outcome = "parse" -> SendFails("failed to parse tips from response")
             [] outcome = "ok" -> pc' = "submit" /\ UNCHANGED <<err, resp>>
    /\ UNCHANGED mnemonic
    /\ UNCHANGED <<handler, envVars, hash, fetchVars, suitableOutputs, txPayload,
                   verifyVars, blockId, cancelled, elapsed, acquired, countVars>>

\* prepAndSendBlock, second half: the block is built and submitted
SendBlock ==
    /\ pc = "submit"
    /\ \E outcome \in {"build", "submit", "ok"}, id \in BlockIDs :
        /\ cancelled => outcome \in {"build", "submit"}
        /\ cause' = IF outcome # "submit" THEN cause
                     ELSE IF cancelled THEN "context canceled" ELSE "rpc error"
        /\ calls' = IF outcome = "build" THEN calls ELSE Append(calls, "SubmitBlock")
        /\ stages' = stages \o
               CASE outcome = "build" -> <<Stage("buildBlock", FALSE)>>
                 [] outcome = "submit" -> <<Stage("buildBlock", TRUE), Stage("submit", FALSE)>>
                 [] outcome = "ok" -> <<Stage("buildBlock", TRUE), Stage("submit", TRUE)>>
        /\ blockId' = IF outcome = "ok" THEN id ELSE blockId
        /\ CASE outcome = "build" -> SendFails("failed to build block")
             [] outcome = "submit" -> SendFails("failed to submit block")
             [] outcome = "ok" -> /\ resp' = BlockJSON(ToHex(id))
                                  /\ pc' = "done"
                                  /\ UNCHANGED err
    /\ UNCHANGED mnemonic
    /\ UNCHANGED <<handler, envVars, hash, fetchVars, suitableOutputs, txPayload,
                   verifyVars, cancelled, elapsed, acquired, countVars>>

\* ------------------------------------------------------------ the ledger
\* the identifier of output number index (from 0) of the n-th transaction
NewOutputID(n, index) == 16 * n + index

\* what the node requires of a transaction before it books it: it spends
\* unspent outputs of the ledger and its outputs hold what its inputs held
SemanticallyValid(l, tx) ==
    /\ \A i \in 1..Len(tx.inputs) : tx.inputs[i] \in l
    /\ SumSeq([i \in 1..Len(tx.inputs) |-> Deposit(tx.inputs[i].Output)])
         = SumSeq([i \in 1..Len(tx.outputs) |-> Deposit(tx.outputs[i])])

\* the submitted block is confirmed: the inputs are spent, the outputs are
\* on the ledger
ConfirmTx ==
    /\ pc = "done"
    /\ handler = "create"
    /\ resp.status = 200
    /\ txPayload.built
    /\ NewOutputID(nCreates, 0) \notin LedgerIDs(ledger)
    /\ SemanticallyValid(ledger, txPayload)
    /\ ledger' = (ledger \ {txPayload.inputs[i] : i \in 1..Len(txPayload.inputs)})
                    \cup {UTXOOutput(NewOutputID(nCreates, i - 1), txPayload.outputs[i]) :
                              i \in 1..Len(txPayload.outputs)}
    /\ notarized' = notarized \cup {[OutputID |-> NewOutputID(nCreates, 0), hash |-> hash]}
    /\ UNCHANGED mnemonic
    /\ UNCHANGED <<pc, handler, protoParas, environ, hash, fetchVars, suitableOutputs, txPayload,
                   verifyVars, err, resp, calls, stages, blockId, ctxVars, countVars>>

\* --------------------------------------------------- verifyNotarization
\* MarshalJSON fails only on a value that is no well-formed feature or
\* output of the protocol
FeatureMarshals(f) == f.type \in {"sender", "issuer", "metadata", "tag"}
OutputMarshals(o) ==
    /\ \A i \in 1..Len(o.conds) :
           o.conds[i] \in {"address", "storageReturn", "timelock", "expiration"}
    /\ \A i \in 1..Len(o.features) : FeatureMarshals(o.features[i])

\* the comparison of a metadata feature with the claimed hash:
\* string(metadataFeature.Data) == requestBody.Hash
DataEqualsHash(data, h) == BytesToString(data) = h

\* the loop over basicOutput.Features, from the first feature on
RECURSIVE ScanFirstMetadataOnly(_, _)
ScanFirstMetadataOnly(features, h) ==
    IF features = <<>> THEN MatchJSON(FALSE)
    ELSE IF Head(features).type = "metadata"
         THEN MatchJSON(DataEqualsHash(Head(features).data, h))
         ELSE ScanFirstMetadataOnly(Tail(features), h)

RECURSIVE ScanFeatures(_, _)
ScanFeatures(features, h) ==
    IF features = <<>> THEN MatchJSON(FALSE)
    ELSE IF ~FeatureMarshals(Head(features))
         THEN HTTPError("Error marshalling feature data to JSON")
    ELSE IF Head(features).type = "metadata" /\ DataEqualsHash(Head(features).data, h)
         THEN MatchJSON(TRUE)
    ELSE ScanFeatures(Tail(features), h)

\* the handler from the type assertion on, for a resolved output
VerifyAnyKind(o, h) ==
    IF ~OutputMarshals(o) THEN HTTPError("Error marshalling basic output to JSON")
    ELSE ScanFeatures(o.features, h)

VerifyResolved(o, h) ==
    IF ~IsBasicOutput(o) THEN HTTPError("Unexpected output type")
    ELSE IF ~OutputMarshals(o) THEN HTTPError("Error marshalling basic output to JSON")
    ELSE ScanFeatures(o.features, h)

\* what the handler answers when OutputByID returns an error
LookupFailedError == HTTPError("No output found")

LookupFailed == MatchJSON(FALSE)

\* the handler up to the lookup: the body is decoded, the identifier parsed
StartVerify ==
    /\ Free
    /\ nVerifies < MaxVerifies
    /\ \E b \in Bodies :
        /\ body' = b
        /\ IF ~b.json
           THEN /\ err' = "Error decoding request body"
                /\ resp' = HTTPError("Error decoding request body")
                /\ pc' = "done"
           ELSE IF ~OutputIDFromHex(b.OutputID).ok
           THEN /\ err' = "Error converting outputID string"
                /\ resp' = HTTPError("Error converting outputID string")
                /\ pc' = "done"
           ELSE /\ err' = ""
                /\ resp' = NoResp
                /\ pc' = "lookup"
    /\ handler' = "verify"
    /\ nVerifies' = nVerifies + 1
    /\ UNCHANGED mnemonic
    /\ UNCHANGED <<envVars, hash, fetchVars, suitableOutputs, txPayload, output, calls,
                   stages, blockId, ctxVars, nCreates>>

\* a handler that looks the output up a second time when the first lookup
\* returned an error
VerifyLookupRetries ==
    /\ pc = "lookup"
    /\ calls' = Append(calls, "OutputByID")
    /\ \E nodeErr \in BOOLEAN :
        LET id == OutputIDFromHex(body.OutputID).id
            found == ~nodeErr /\ ~cancelled /\ id \in LedgerIDs(ledger)
        IN IF ~found
           THEN /\ output' = NoOutput
                /\ resp' = IF calls = <<>> THEN NoResp ELSE LookupFailed
                /\ pc' = IF calls = <<>> THEN "lookup" ELSE "done"
           ELSE /\ output' = [found |-> TRUE, o |-> OutputByID(ledger, id)]
                /\ resp' = VerifyResolved(OutputByID(ledger, id), body.Hash)
                /\ pc' = "done"
    /\ err' = IF resp'.status = 500 THEN resp'.msg ELSE ""
    /\ UNCHANGED mnemonic
    /\ UNCHANGED <<handler, envVars, hash, fetchVars, suitableOutputs, txPayload, body,
                   stages, blockId, ctxVars, countVars>>

\* inxNodeClient.OutputByID(ctx, outputID) and the rest of the handler
VerifyLookup ==
    /\ pc = "lookup"
    /\ calls' = Append(calls, "OutputByID")
    /\ \E nodeErr \in BOOLEAN :
        LET id == OutputIDFromHex(body.OutputID).id
            found == ~nodeErr /\ ~cancelled /\ id \in LedgerIDs(ledger)
        IN IF ~found
           THEN /\ output' = NoOutput
                /\ resp' = LookupFailed
           ELSE /\ output' = [found |-> TRUE, o |-> OutputByID(ledger, id)]
                /\ resp' = VerifyResolved(OutputByID(ledger, id), body.Hash)
    /\ err' = IF resp'.status = 500 THEN resp'.msg ELSE ""
    /\ pc' = "done"
    /\ UNCHANGED mnemonic
    /\ UNCHANGED <<handler, envVars, hash, fetchVars, suitableOutputs, txPayload, body,
                   stages, blockId, ctxVars, countVars>>

\* the client of the running request goes away: the server cancels the
\* context of the request. Only Tips, SubmitBlock and OutputByID are called
\* with this context, so a cancellation at any earlier moment of the handler
\* acts as one just before the first of these calls
ClientCancel ==
    /\ pc \in {"tips", "submit", "lookup"}
    /\ ~cancelled
    /\ cancelled' = TRUE
    /\ UNCHANGED mnemonic
    /\ UNCHANGED <<pc, handler, envVars, hash, fetchVars, suitableOutputs, txPayload,
                   verifyVars, err, resp, calls, stages, blockId, cause, elapsed, acquired,
                   countVars>>

\* the handler has returned (or its panic was recovered): the request's
\* values are gone, the service waits for the next request
Finish ==
    /\ pc \in {"done", "panic"}
    /\ pc' = "idle"
    /\ handler' = "none"
    /\ hash' = <<>>
    /\ served' = <<>>
    /\ unspentOutputs' = <<>>
    /\ fetched' = NoFetch
    /\ suitableOutputs' = <<>>
    /\ txPayload' = NoTx
    /\ body' = NoBody
    /\ output' = NoOutput
    /\ err' = ""
    /\ resp' = NoResp
    /\ calls' = <<>>
    /\ stages' = <<>>
    /\ blockId' = 0
    /\ cancelled' = FALSE
    /\ cause' = ""
    /\ elapsed' = 0
    /\ acquired' = 0
    /\ mnemonic' = NoMnemonic
    /\ UNCHANGED <<envVars, countVars>>

\* what the client receives: the handler's answer or, when the handler
\* panicked, the answer of the server's recover middleware
Answer == IF pc = "panic" THEN HTTPError("internal server error") ELSE resp

\* ------------------------------------------------------- specifications
\* the service: create and verify requests, one at a time, over the ledger
Next ==
    \/ StartCreate
    \/ FetchIndexer
    \/ FetchQuery
    \/ FetchNext
    \/ FilterOutputs
    \/ PrepTxPayload
    \/ SendTips
    \/ SendBlock
    \/ ConfirmTx
    \/ StartVerify
    \/ VerifyLookup
    \/ ClientCancel
    \/ Finish

Spec == Init /\ [][Next]_vars

\* filterOutputs alone, on every short sequence of these unspent outputs
\* (identifiers may repeat, as in the unit test's data)
UnspentUniverse ==
    {UTXOOutput(id, o) :
        id \in {1, 4},
        o \in {MkOutput("basic", 20, <<"address">>, <<>>),
               MkOutput("basic", 10, <<"address">>, <<MetadataFeature(<<1>>)>>),
               MkOutput("alias", 10, <<"stateController", "governor">>, <<>>),
               MkOutput("basic", 10, <<"address">>, <<SenderFeature, MetadataFeature(<<1>>)>>),
               MkOutput("basic", 10, <<"address">>, <<MetadataFeature(<<2>>), TagFeature>>),
               MkOutput("basic", 10, <<"address">>, <<TagFeature>>),
               MkOutput("basic", 10, <<"address", "timelock">>, <<>>),
               MkOutput("nft", 10, <<"address">>, <<MetadataFeature(<<1>>)>>)}}

InitFilter ==
    /\ pc = "filter"
    /\ handler = "create"
    /\ protoParas = CHOOSE p \in ProtoParasSet : p.TokenSupply = UintModulus \div 2
    /\ ledger = LedgerInit
    /\ notarized = {}
    /\ hash = <<1>>
    /\ served = <<>>
    /\ unspentOutputs = <<>>
    /\ \E outputs \in SeqsUpTo(UnspentUniverse, MaxUnspent) :
           fetched = [done |-> TRUE, err |-> "", outputs |-> outputs]
    /\ suitableOutputs = <<>>
    /\ txPayload = NoTx
    /\ body = NoBody
    /\ output = NoOutput
    /\ err = ""
    /\ resp = NoResp
    /\ calls = <<"Indexer", "Outputs">> \o (IF fetched.outputs = <<>> THEN <<>> ELSE <<"Next">>)
    /\ stages = StagesBeforeFilter
    /\ blockId = 0
    /\ cancelled = FALSE
    /\ cause = ""
    /\ elapsed = 0
    /\ acquired = 0
    /\ environ = EnvironSet
    /\ mnemonic = loadEnvVariable(environ, "MNEMONIC")
    /\ nCreates = 1
    /\ nVerifies = 0

NextFilter == FilterOutputs

SpecFilter == InitFilter /\ [][NextFilter]_vars

\* prepTxPayload alone, on every short sequence of these eligible inputs,
\* every hash and both protocol parameter sets
TxAmounts == {0, 3, 4, 5, 6, 8, UintModulus \div 2, UintModulus - 1}

EligibleUniverse ==
    {UTXOOutput(id, MkOutput("basic", a, <<"address">>, <<>>)) :
        id \in {0, 1}, a \in TxAmounts}

InitTx ==
    /\ pc = "prepTx"
    /\ handler = "create"
    /\ protoParas \in ProtoParasSet
    /\ ledger = LedgerInit
    /\ notarized = {}
    /\ hash \in Strings
    /\ served = <<>>
    /\ unspentOutputs = <<>>
    /\ fetched = NoFetch
    /\ suitableOutputs \in SeqsUpTo(EligibleUniverse, MaxInputs)
    /\ txPayload = NoTx
    /\ body = NoBody
    /\ output = NoOutput
    /\ err = ""
    /\ resp = NoResp
    /\ calls = <<"Indexer", "Outputs">> \o (IF suitableOutputs = <<>> THEN <<>> ELSE <<"Next">>)
    /\ stages = StagesBeforeTx
    /\ blockId = 0
    /\ cancelled = FALSE
    /\ cause = ""
    /\ elapsed = 0
    /\ acquired = 0
    /\ environ = EnvironSet
    /\ mnemonic = loadEnvVariable(environ, "MNEMONIC")
    /\ nCreates = 1
    /\ nVerifies = 0

NextTx == PrepTxPayload

SpecTx == InitTx /\ [][NextTx]_vars

\* the rent computation alone, inside prepTxPayload, on every hash and on
\* rent structures of every small byte cost and weight. VByteCost is a
\* uint32, the weights are uint8 and a hash arrives in a request line of at
\* most a megabyte, so the product stays far below the uint64 range: the
\* ranges here keep it below UintModulus in the same way
RentStructures == [VByteCost : 0..3, VBFactorData : 0..2, VBFactorKey : 0..2]

RentParasSet == {[TokenSupply |-> UintModulus - 1, RentStructure |-> r] : r \in RentStructures}

RentInputs ==
    {UTXOOutput(0, MkOutput("basic", 8, <<"address">>, <<>>)),
     UTXOOutput(1, MkOutput("basic", UintModulus \div 2, <<"address">>, <<>>))}

InitRent ==
    /\ pc = "prepTx"
    /\ handler = "create"
    /\ protoParas \in RentParasSet
    /\ ledger = LedgerInit
    /\ notarized = {}
    /\ hash \in Strings
    /\ served = <<>>
    /\ unspentOutputs = <<>>
    /\ fetched = NoFetch
    /\ suitableOutputs \in SeqsUpTo(RentInputs, MaxInputs)
    /\ txPayload = NoTx
    /\ body = NoBody
    /\ output = NoOutput
    /\ err = ""
    /\ resp = NoResp
    /\ calls = <<"Indexer", "Outputs">> \o (IF suitableOutputs = <<>> THEN <<>> ELSE <<"Next">>)
    /\ stages = StagesBeforeTx
    /\ blockId = 0
    /\ cancelled = FALSE
    /\ cause = ""
    /\ elapsed = 0
    /\ acquired = 0
    /\ environ = EnvironSet
    /\ mnemonic = loadEnvVariable(environ, "MNEMONIC")
    /\ nCreates = 1
    /\ nVerifies = 0

NextRent == PrepTxPayload

SpecRent == InitRent /\ [][NextRent]_vars

\* loadEnvVariable alone, called as by its unit test with either name, in
\* every environment of these two variables
LoadEnvVariable ==
    /\ pc = "idle"
    /\ mnemonic = NoMnemonic
    /\ \E name \in EnvNames : mnemonic' = loadEnvVariable(environ, name)
    /\ UNCHANGED <<pc, handler, envVars, hash, fetchVars, suitableOutputs, txPayload,
                   verifyVars, err, resp, calls, stages, blockId, ctxVars, countVars>>

InitEnv ==
    /\ pc = "idle"
    /\ handler = "none"
    /\ protoParas = CHOOSE p \in ProtoParasSet : p.TokenSupply = UintModulus \div 2
    /\ ledger = LedgerInit
    /\ notarized = {}
    /\ hash = <<>>
    /\ served = <<>>
    /\ unspentOutputs = <<>>
    /\ fetched = NoFetch
    /\ suitableOutputs = <<>>
    /\ txPayload = NoTx
    /\ body = NoBody
    /\ output = NoOutput
    /\ err = ""
    /\ resp = NoResp
    /\ calls = <<>>
    /\ stages = <<>>
    /\ blockId = 0
    /\ cancelled = FALSE
    /\ cause = ""
    /\ elapsed = 0
    /\ acquired = 0
    /\ environ \in [EnvNames -> EnvEntries]
    /\ mnemonic = NoMnemonic
    /\ nCreates = 0
    /\ nVerifies = 0

NextEnv == LoadEnvVariable

SpecEnv == InitEnv /\ [][NextEnv]_vars

\* ------------------------------------------------------------ the claims
\* the deposits of a sequence of outputs with identifiers, and of a
\* sequence of outputs, summed as integers
InputSum(inputs) == SumSeq([i \in 1..Len(inputs) |-> inputs[i].Output.amount])
OutputSum(outputs) == SumSeq([i \in 1..Len(outputs) |-> outputs[i].amount])

\* prepTxPayload has run on the request's eligible inputs
Assembled == handler = "create" /\ txPayload.outputs # <<>>

\* C1: whenever prepTxPayload returns a transaction, the sum of its inputs'
\* deposits equals the sum of its outputs' amounts
C1_Balanced ==
    (Assembled /\ txPayload.built) =>
        InputSum(txPayload.inputs) = OutputSum(txPayload.outputs)

\* the minimum deposit computed for the request's notarization output
NotarizationCost == MinRent(protoParas.RentStructure, NotarizationDraft(hash))

\* C2: when the eligible inputs hold less than the notarization deposit,
\* assembly fails with an insufficient-funds error: no transaction, no
\* remainder output, no tip fetch and no block submission
C2_InsufficientFunds ==
    (Assembled /\ InputSum(suitableOutputs) < NotarizationCost) =>
        /\ ~txPayload.built
        /\ Len(txPayload.outputs) = 1
        /\ err = "insufficient funds"
        /\ resp.status = 500
        /\ \A i \in 1..Len(calls) : calls[i] \notin {"Tips", "SubmitBlock"}

\* C3: no output that filterOutputs returns carries a metadata feature
C3_NoMetadataAdmitted ==
    pc = "prepTx" =>
        \A i \in 1..Len(suitableOutputs) :
            \A j \in 1..Len(suitableOutputs[i].Output.features) :
                suitableOutputs[i].Output.features[j].type # "metadata"

\* C3's case: an input carries a metadata feature behind another feature,
\* another input is admitted
C3_Witness ==
    /\ pc = "prepTx"
    /\ suitableOutputs # <<>>
    /\ \E i \in 1..Len(fetched.outputs) :
           /\ fetched.outputs[i].Output.kind = "basic"
           /\ Len(fetched.outputs[i].Output.features) = 2
           /\ fetched.outputs[i].Output.features[2].type = "metadata"

\* a basic output without a metadata feature, said without the model's helpers
BasicWithoutMetadata(u) ==
    /\ u.Output.kind = "basic"
    /\ ~\E j \in 1..Len(u.Output.features) : u.Output.features[j].type = "metadata"

\* C4: filterOutputs returns, without error, exactly the inputs that are
\* basic outputs without metadata, in their order and with their identifiers
C4_ExactSubsequence ==
    pc = "prepTx" =>
        /\ suitableOutputs = SelectSeq(fetched.outputs, BasicWithoutMetadata)
        /\ err = ""
        /\ resp = NoResp

\* C4's case: the scenario of the unit test (a plain basic output, a basic
\* output with metadata, an alias output), the two rejected ones sharing an
\* identifier: exactly the first is returned
C4_Witness ==
    /\ pc = "prepTx"
    /\ fetched.outputs =
         <<UTXOOutput(4, MkOutput("basic", 20, <<"address">>, <<>>)),
           UTXOOutput(1, MkOutput("basic", 10, <<"address">>, <<MetadataFeature(<<1>>)>>)),
           UTXOOutput(1, MkOutput("alias", 10, <<"stateController", "governor">>, <<>>))>>
    /\ suitableOutputs = <<UTXOOutput(4, MkOutput("basic", 20, <<"address">>, <<>>))>>

\* C5: every output filterOutputs admits has exactly one unlock condition,
\* the address unlock condition
C5_SingleAddressCondition ==
    pc = "prepTx" =>
        \A i \in 1..Len(suitableOutputs) :
            suitableOutputs[i].Output.conds = <<"address">>

\* the outputs of all the pages served, in page order, each with the
\* identifier listed for it
RECURSIVE AllServed(_, _)
AllServed(l, pages) ==
    IF pages = <<>> THEN <<>>
    ELSE PageOutputs(l, Head(pages)) \o AllServed(l, Tail(pages))

FetchErrors ==
    {"failed to get indexer client", "failed to fetch outputs from indexer",
     "failed to get outputs from indexer result set", "Error parsing hex output IDs",
     "indexer result set error"}

\* C6: fetchOutputsByAddress is all-or-nothing: an error of the client
\* acquisition, the query, a page, an identifier of a page or the stream makes
\* it return an error and no outputs; otherwise it returns every output of
\* every page, in order, with its identifier
C6_AllOrNothing ==
    /\ (handler = "create" /\ err \in FetchErrors) =>
           (fetched.done /\ fetched.err # "" /\ fetched.outputs = <<>>)
    /\ (pc = "filter" /\ handler = "create") =>
           (fetched.done /\ fetched.err = "" /\ fetched.outputs = AllServed(ledger, served))

\* C6 without the identifiers that do not parse: every other error makes the
\* fetch return an error and no outputs, and a fetch that returns outputs
\* returns those of every page
C6_ExceptUnparsedIdentifier ==
    /\ (handler = "create" /\ err \in FetchErrors \ {"Error parsing hex output IDs"}) =>
           (fetched.done /\ fetched.err # "" /\ fetched.outputs = <<>> /\ resp.status = 500)
    /\ (pc = "filter" /\ handler = "create") =>
           (fetched.done /\ fetched.err = "" /\ fetched.outputs = AllServed(ledger, served))

\* a verify request has been answered
Verified == handler = "verify" /\ pc = "done"

\* the identifier the verify request names
RequestedID == OutputIDFromHex(body.OutputID).id

\* C7: for a notarization output on the ledger that prepTxPayload built for
\* hash H, a verify request naming it answers match=true for H and
\* match=false for every other hash
C7_RoundTrip ==
    (Verified /\ output.found) =>
        \A n \in notarized :
            n.OutputID = RequestedID =>
                /\ resp.status = 200
                /\ resp.match = IF body.Hash = n.hash THEN "true" ELSE "false"

\* C7's case: a notarization of a non-empty hash was confirmed and then
\* verified with the same hash
C7_Witness ==
    /\ Verified
    /\ output.found
    /\ \E n \in notarized :
           n.OutputID = RequestedID /\ n.hash # <<>> /\ body.Hash = n.hash
    /\ resp.match = "true"

\* C8: when the lookup of a well-formed identifier fails, the answer is
\* HTTP 200 with match=false
C8_LookupFailureIsNoMatch ==
    (Verified /\ body.json /\ OutputIDFromHex(body.OutputID).ok /\ ~output.found) =>
        resp = [status |-> 200, msg |-> "", match |-> "false", blockId |-> <<>>]

\* C8's case: the identifier is well-formed and on no ledger
C8_Witness ==
    /\ Verified
    /\ body.json
    /\ OutputIDFromHex(body.OutputID).ok
    /\ RequestedID \notin LedgerIDs(ledger)
    /\ ~output.found
    /\ resp.status = 200

\* C9: when the resolved output is not a basic output, the answer is the
\* unexpected-type error, HTTP 500, and no match answer
C9_NonBasicIsError ==
    (Verified /\ output.found /\ output.o.kind # "basic") =>
        resp = [status |-> 500, msg |-> "Unexpected output type", match |-> "none",
                blockId |-> <<>>]

\* C9's case: an alias output whose metadata equals the claimed hash
C9_Witness ==
    /\ Verified
    /\ output.found
    /\ output.o.kind = "alias"
    /\ \E i \in 1..Len(output.o.features) :
           output.o.features[i].type = "metadata" /\ output.o.features[i].data = body.Hash
    /\ resp.status = 500

\* C10: for a resolved basic output the answer is match=true exactly when
\* some metadata feature's data equals the claimed hash, else match=false
C10_MatchIffSomeMetadataEqual ==
    (Verified /\ output.found /\ output.o.kind = "basic") =>
        /\ resp.status = 200
        /\ resp.match =
             IF \E i \in 1..Len(output.o.features) :
                    /\ output.o.features[i].type = "metadata"
                    /\ output.o.features[i].data = body.Hash
             THEN "true" ELSE "false"

\* C10's case: two metadata features, the first differs from the claimed
\* hash, the second equals it
C10_Witness ==
    /\ Verified
    /\ output.found
    /\ output.o.kind = "basic"
    /\ \E i, j \in 1..Len(output.o.features) :
           /\ i < j
           /\ output.o.features[i].type = "metadata"
           /\ output.o.features[i].data # body.Hash
           /\ output.o.features[j].type = "metadata"
           /\ output.o.features[j].data = body.Hash
    /\ resp.match = "true"

AllStages ==
    StagesBeforeTx \o
        <<Stage("assemble", TRUE), Stage("txID", TRUE), Stage("tips", TRUE),
          Stage("parseTips", TRUE), Stage("buildBlock", TRUE), Stage("submit", TRUE)>>

\* the create handler has returned or panicked
Created == handler = "create" /\ pc \in {"done", "panic"}

\* C12: a create request answers HTTP 200 with a blockId if and only if every
\* stage succeeded, the blockId being the hexadecimal form of the identifier
\* the node's submission returned; any failed stage yields HTTP 500; the
\* stages run in the fixed order and none runs after a failed one
C12_SuccessIffAllStages ==
    handler = "create" =>
        /\ Len(stages) <= Len(AllStages)
        /\ \A i \in 1..Len(stages) :
               /\ stages[i].stage = AllStages[i].stage
               /\ ~stages[i].ok => (i = Len(stages) /\ Created)
        /\ Created =>
               /\ Answer.status = 200 <=> stages = AllStages
               /\ Answer.status = 200 =>
                      (blockId \in BlockIDs /\ Answer.blockId = ToHex(blockId))
               /\ stages # AllStages =>
                      (Answer.status = 500 /\ ~stages[Len(stages)].ok)

\* C12's case: every stage succeeded and the node returned block 18; the
\* answer is 200 with its hexadecimal form
C12_Witness ==
    /\ Created
    /\ stages = AllStages
    /\ blockId = 18
    /\ resp = BlockJSON(<<"0", "x", "1", "2">>)

\* the last step the handler took is this one, and it failed
Failed(name) == stages # <<>> /\ stages[Len(stages)] = Stage(name, FALSE)
\* the handler took this step and it succeeded
Passed(name) == \E i \in 1..Len(stages) : stages[i] = Stage(name, TRUE)
\* the running request has issued this external call
Issued(call) == \E i \in 1..Len(calls) : calls[i] = call

\* C13: the block is submitted to the node only after the tips were fetched
\* and parsed and the block was built; when one of these fails no block is
\* submitted; a failed tip fetch, block build and block submission each
\* return an error of their own
C13_SubmitOnlyAfterBuild ==
    handler = "create" =>
        /\ Issued("SubmitBlock") =>
               (Passed("tips") /\ Passed("parseTips") /\ Passed("buildBlock"))
        /\ (Failed("tips") \/ Failed("parseTips") \/ Failed("buildBlock")) =>
               ~Issued("SubmitBlock")
        /\ Failed("tips") <=> err = "failed to fetch tips"
        /\ Failed("buildBlock") <=> err = "failed to build block"
        /\ Failed("submit") <=> err = "failed to submit block"

\* C13's case: the tips were fetched and parsed, the block build failed, and
\* the request ended without a submission
C13_Witness ==
    /\ Created
    /\ Issued("Tips")
    /\ Passed("parseTips")
    /\ Failed("buildBlock")
    /\ ~Issued("SubmitBlock")
    /\ err = "failed to build block"

\* the external calls a request issues at most once
SingleCalls == {"Indexer", "Outputs", "Tips", "SubmitBlock", "OutputByID"}

\* the errors fetchOutputsByAddress and prepAndSendBlock return for a failed
\* external call, each with the call that failed
CallErrors ==
    {<<"failed to get indexer client", "Indexer">>,
     <<"failed to fetch outputs from indexer", "Outputs">>,
     <<"indexer result set error", "Next">>,
     <<"failed to get outputs from indexer result set", "Next">>,
     <<"failed to fetch tips", "Tips">>,
     <<"failed to submit block", "SubmitBlock">>}

\* no call of SingleCalls is issued twice within the running request
EachCallOnce ==
    \A i, j \in 1..Len(calls) : (calls[i] = calls[j] /\ calls[i] \in SingleCalls) => i = j

\* the request has ended and this call was its last external call
EndedAfter(call) == pc = "done" /\ calls # <<>> /\ calls[Len(calls)] = call

\* the output lookup of the running verify request returned an error
LookupReturnedError == handler = "verify" /\ Issued("OutputByID") /\ ~output.found

\* C14 as stated: each external call is issued at most once, and the first
\* failed external call, the output lookup included, ends the request with a
\* failure and is the request's last external call
C14_FailedCallFailsRequest ==
    /\ EachCallOnce
    /\ \A ce \in CallErrors : err = ce[1] => (EndedAfter(ce[2]) /\ resp.status = 500)
    /\ LookupReturnedError => (EndedAfter("OutputByID") /\ resp.status = 500)

\* C14: each external call is issued at most once; a failed external call of
\* a create request ends it with HTTP 500 and is its last external call; a
\* failed output lookup ends the verify request, as its only external call,
\* with the answer that there is no match
C14_NoRetry ==
    /\ EachCallOnce
    /\ \A ce \in CallErrors : err = ce[1] => (EndedAfter(ce[2]) /\ resp.status = 500)
    /\ LookupReturnedError =>
           (EndedAfter("OutputByID") /\ Len(calls) = 1 /\ resp = MatchJSON(FALSE))

\* C14's case: the block submission fails after the indexer, a page of the
\* stream and the tips were fetched once each, and the request ends with 500
C14_Witness ==
    /\ Created
    /\ calls = <<"Indexer", "Outputs", "Next", "Tips", "SubmitBlock">>
    /\ err = "failed to submit block"
    /\ resp.status = 500

\* C15: once the tips are fetched, a cancellation of the request's context by
\* the client does not abort the block submission: when the submission
\* fails, it fails for a reason of its own
C15_SubmissionNotCancellable ==
    (handler = "create" /\ Passed("tips") /\ Failed("submit")) =>
        cause # "context canceled"

\* C16: the two deadlines are independent, each bounds its own call and
\* aborts it with an error: the acquisition of the indexer client fails by
\* deadline only at the availability timeout, and the query or the streaming
\* fails by deadline only when the request timeout has passed since the query
\* was issued, however long the acquisition took
C16_IndependentDeadlines ==
    (handler = "create" /\ pc = "done" /\ cause = "context deadline exceeded") =>
        /\ err \in {"failed to get indexer client", "failed to fetch outputs from indexer",
                    "indexer result set error"}
        /\ resp = HTTPError("Error fetching outputs")
        /\ err = "failed to get indexer client" => elapsed >= indexerPluginAvailableTimeout
        /\ err # "failed to get indexer client" => elapsed >= acquired + inxRequestTimeout

\* the outputs the claim describes for these inputs: the notarization output
\* and, if the inputs hold more than its deposit, the remainder output
ExpectedOutputs(inputs, h, cost) ==
    <<[NotarizationDraft(h) EXCEPT !.amount = cost]>> \o
        (IF InputSum(inputs) > cost
         THEN <<MkOutput("basic", InputSum(inputs) - cost, <<"address">>, <<>>)>>
         ELSE <<>>)

\* C17: the outputs of an assembled transaction are the notarization output
\* (metadata the hash bytes, amount the minimum deposit, one address unlock
\* condition) followed by a remainder output of amount total input deposit
\* minus notarization deposit if and only if the total exceeds the deposit;
\* no output has amount zero
C17_RemainderIffSurplus ==
    (Assembled /\ txPayload.built) =>
        /\ txPayload.outputs = ExpectedOutputs(txPayload.inputs, hash, NotarizationCost)
        /\ \A i \in 1..Len(txPayload.outputs) : txPayload.outputs[i].amount > 0

\* what holds of prepTxPayload: when the inputs' deposits sum up without
\* overflow to at least the notarization deposit, the outputs are as C17
\* describes, whether or not Build accepts them
C17_ExceptDeficitAndOverflow ==
    (Assembled /\ NotarizationCost <= InputSum(txPayload.inputs)
               /\ InputSum(txPayload.inputs) < UintModulus) =>
        /\ txPayload.outputs = ExpectedOutputs(txPayload.inputs, hash, NotarizationCost)
        /\ \A i \in 1..Len(txPayload.outputs) : txPayload.outputs[i].amount > 0

\* the deposit prepTxPayload computed for the notarization output
ComputedDeposit == txPayload.outputs[1].amount
\* the minimum deposit of the notarization output of hash h
DepositOf(h) == MinRent(protoParas.RentStructure, NotarizationDraft(h))

\* C18: the minimum deposit computed for the notarization output depends on
\* the protocol parameters and the hash alone, and under the same parameters
\* a hash of more bytes never gets a smaller deposit than one of fewer bytes
C18_DepositMonotonic ==
    Assembled =>
        /\ ComputedDeposit = DepositOf(hash)
        /\ \A h \in Strings :
               /\ Len(h) <= Len(hash) => DepositOf(h) <= ComputedDeposit
               /\ Len(h) >= Len(hash) => DepositOf(h) >= ComputedDeposit

\* C18's case: under a rent structure of byte cost 3 and data weight 2 the
\* deposit of a two-byte hash was computed, and it is greater than that of
\* the empty hash
C18_Witness ==
    /\ Assembled
    /\ Len(hash) = MaxHashLen
    /\ protoParas.RentStructure = [VByteCost |-> 3, VBFactorData |-> 2, VBFactorKey |-> 2]
    /\ ComputedDeposit > DepositOf(<<>>)
    /\ suitableOutputs # <<>>

\* strings.Join(phrases, " ")
RECURSIVE Join(_)
Join(phrases) ==
    IF phrases = <<>> THEN <<>>
    ELSE IF Len(phrases) = 1 THEN phrases[1]
    ELSE phrases[1] \o <<" ">> \o Join(Tail(phrases))

\* how many spaces a string holds
Spaces(keys) == Cardinality({i \in 1..Len(keys) : keys[i] = " "})

\* loadEnvVariable has been called
Loaded == mnemonic.name # ""

\* C19: loadEnvVariable(name) fails with "environment variable '<name>' not
\* set" and a nil result when the variable is absent and when it is empty;
\* for any non-empty value it succeeds and returns the value split at every
\* single space, so that joining the words with single spaces gives the value
C19_LoadEnvVariable ==
    Loaded =>
        LET env == environ[mnemonic.name] IN
        IF ~env.set \/ env.value = <<>>
        THEN /\ mnemonic.err = <<"environment variable '", mnemonic.name, "' not set">>
             /\ mnemonic.phrases = <<>>
        ELSE /\ mnemonic.err = <<>>
             /\ Len(mnemonic.phrases) = Spaces(env.value) + 1
             /\ \A i \in 1..Len(mnemonic.phrases) : Spaces(mnemonic.phrases[i]) = 0
             /\ Join(mnemonic.phrases) = env.value

\* C19's case: a value with a leading space and two spaces in a row is split
\* into words some of which are empty
C19_Witness ==
    /\ Loaded
    /\ mnemonic.name = "TEST_MNEMONIC"
    /\ environ["TEST_MNEMONIC"].value = <<" ", "a", " ">>
    /\ mnemonic.phrases = << <<>>, <<"a">>, <<>> >>
    /\ mnemonic.err = <<>>

====
